---- MODULE Spec2Model ----
(***************************************************************************)
(* Model of app35.py: a Streamlit page whose "Run Simulation" button runs  *)
(* a seven-branch pipeline of elementwise transforms over a numeric series *)
(* and shows a chart, a CSV download and a success message.                *)
(*                                                                         *)
(* Numbers.  A float is modelled as a record                               *)
(*     [k |-> "fin", n, d, e]   the real (n/d) * exp(e/100), d > 0,        *)
(*                              n/d in lowest terms, zero as 0/1 with e=0  *)
(*     [k |-> "inf", n |-> +1 or -1]   plus or minus infinity              *)
(*     [k |-> "nan"]                   not-a-number                        *)
(* so that products of rationals and of exponentials are exact, and the    *)
(* IEEE outcomes of x/0, 0/0, inf*0 and of an overflowing or underflowing  *)
(* np.exp are kept.  Rounding of finite products is not modelled.          *)
(***************************************************************************)
EXTENDS Integers, Sequences, FiniteSets, TLC

VARIABLES model_type, time_steps, initial_conc, hydraulic_gradient, k_decay,
          kd_value, pc, time, concentration, applied, page, chart, csv, error,
          rerun

vars == <<model_type, time_steps, initial_conc, hydraulic_gradient, k_decay,
          kd_value, pc, time, concentration, applied, page, chart, csv, error,
          rerun>>

controls == <<model_type, time_steps, initial_conc, hydraulic_gradient,
              k_decay, kd_value>>

(* ------------------------------ numbers -------------------------------- *)

AbsInt(x) == IF x < 0 THEN -x ELSE x

RECURSIVE GCD(_, _)
GCD(a, b) == IF b = 0 THEN a ELSE GCD(b, a % b)

NaN == [k |-> "nan", n |-> 0, d |-> 1, e |-> 0]

Inf(s) == [k |-> "inf", n |-> s, d |-> 1, e |-> 0]

Sign(x) == IF x < 0 THEN -1 ELSE IF x > 0 THEN 1 ELSE 0

\* the float (n/d) * exp(e/100) in normal form
Fin(n, d, e) ==
    IF n = 0 THEN [k |-> "fin", n |-> 0, d |-> 1, e |-> 0]
    ELSE LET g == GCD(AbsInt(n), AbsInt(d))
             s == Sign(d)
         IN  [k |-> "fin", n |-> s * (n \div g), d |-> s * (d \div g), e |-> e]

Rat(n, d) == Fin(n, d, 0)

Num(i) == Fin(i, 1, 0)

IsZero(v) == v.k = "fin" /\ v.n = 0

\* IEEE product
Mul(a, b) ==
    IF a.k = "nan" \/ b.k = "nan" THEN NaN
    ELSE IF a.k = "inf" \/ b.k = "inf"
         THEN IF IsZero(a) \/ IsZero(b) THEN NaN ELSE Inf(Sign(a.n) * Sign(b.n))
    ELSE IF a.n = 0 \/ b.n = 0 THEN Num(0)
    ELSE LET g1 == GCD(AbsInt(a.n), b.d)
             g2 == GCD(AbsInt(b.n), a.d)
         IN  Fin((a.n \div g1) * (b.n \div g2), (a.d \div g2) * (b.d \div g1),
                 a.e + b.e)

\* IEEE quotient: x/0 is an infinity, 0/0 and inf/inf are NaN (numpy warns
\* and continues)
Div(a, b) ==
    IF a.k = "nan" \/ b.k = "nan" THEN NaN
    ELSE IF b.k = "inf"
         THEN IF a.k = "inf" THEN NaN ELSE Num(0)
    ELSE IF IsZero(b)
         THEN IF IsZero(a) THEN NaN ELSE Inf(Sign(a.n))
    ELSE IF a.k = "inf" THEN Inf(Sign(a.n) * Sign(b.n))
    ELSE Mul(a, Fin(b.d * Sign(b.n), AbsInt(b.n), -b.e))

Neg(a) ==
    IF a.k = "nan" THEN NaN
    ELSE IF a.k = "inf" THEN Inf(-a.n)
    ELSE Fin(-a.n, a.d, a.e)

AbsV(a) ==
    IF a.k = "nan" THEN NaN
    ELSE IF a.k = "inf" THEN Inf(1)
    ELSE Fin(AbsInt(a.n), a.d, a.e)

\* IEEE sum; finite operands are plain rationals (e = 0) wherever the
\* program adds
Add(a, b) ==
    IF a.k = "nan" \/ b.k = "nan" THEN NaN
    ELSE IF a.k = "inf"
         THEN IF b.k = "inf" /\ b.n # a.n THEN NaN ELSE a
    ELSE IF b.k = "inf" THEN b
    ELSE Fin(a.n * b.d + b.n * a.d, a.d * b.d, 0)

Sub(a, b) == Add(a, Neg(b))

\* a > b on floats; any comparison with NaN is false
Greater(a, b) ==
    IF a.k = "nan" \/ b.k = "nan" THEN FALSE
    ELSE IF a.k = "inf" THEN a.n = 1 /\ ~(b.k = "inf" /\ b.n = 1)
    ELSE IF b.k = "inf" THEN b.n = -1
    ELSE a.n * b.d > b.n * a.d

\* np.exp overflows to inf above 709.78 and underflows to 0 below -745.13
ExpOverflow == 70978

ExpUnderflow == -74513

\* np.exp of a rational x given in hundredths-compatible form
Exp(x) ==
    IF x.k = "nan" THEN NaN
    ELSE IF x.k = "inf" THEN (IF x.n = 1 THEN Inf(1) ELSE Num(0))
    ELSE LET h == (x.n * 100) \div x.d
         IN  IF h > ExpOverflow THEN Inf(1)
             ELSE IF h < ExpUnderflow THEN Num(0)
             ELSE Fin(1, 1, h)

(* ------------------------------- strings ------------------------------- *)

\* the characters of the string literals of the program
Chars(s) ==
    CASE s = "Basic"  -> <<"B", "a", "s", "i", "c">>
      [] s = "Hydro"  -> <<"H", "y", "d", "r", "o">>
      [] s = "HT"     -> <<"H", "T">>
      [] s = "HTB"    -> <<"H", "T", "B">>
      [] s = "HTBCM"  -> <<"H", "T", "B", "C", "M">>
      [] s = "HTBCMG" -> <<"H", "T", "B", "C", "M", "G">>
      [] s = "B"      -> <<"B">>
      [] s = "C"      -> <<"C">>
      [] s = "M"      -> <<"M">>
      [] s = "G"      -> <<"G">>

\* Python's  sub in s  on strings: substring containment
PyIn(sub, s) ==
    LET a == Chars(sub)
        b == Chars(s)
    IN  \E i \in 0..(Len(b) - Len(a)) : SubSeq(b, i + 1, i + Len(a)) = a

(* ---------------------------- input domains ---------------------------- *)

\* length hard-coded in every placeholder helper
N == 100

SliderMin == 10

SliderMax == 500

\* largest |deformation| drawn, in units of the standard deviation 0.01
MaxDev == 3

\* number of deformation arrays drawn, less one
MaxSeed == 1

ModelTypes == {"Basic", "Hydro", "HT", "HTB", "HTBCM", "HTBCMG"}

TimeStepsSet == {SliderMin, N, SliderMax}

InitialConcSet == {Num(-50), Num(0), Num(100)}

GradientSet == {Num(-2), Num(0), Num(1)}

DecayRateSet == {Num(-8), Num(0), Rat(1, 10), Rat(1, 4)}

KdSet == {Num(-1), Num(0), Rat(1, 2)}

(* ------------------------------- arrays -------------------------------- *)

\* dict.get(key, default)
Get(parameters, key, default) ==
    IF key \in DOMAIN parameters THEN parameters[key] ELSE default

EmptyDict == [x \in {} |-> NaN]

\* np.arange(n), integers 0..n-1
Arange(n) == [i \in 1..n |-> i - 1]

\* np.ones(n) * c
Ones(n, c) == [i \in 1..n |-> Mul(Num(1), c)]

\* np.linspace(start, stop, num)
Linspace(start, stop, num) ==
    [i \in 1..num |-> Add(start, Mul(Num(i - 1), Div(Sub(stop, start), Num(num - 1))))]

\* numpy's broadcasting rule for two one-dimensional shapes
Broadcastable(n, m) == n = m \/ n = 1 \/ m = 1

\* a *= b keeps the shape of a
InPlaceOk(a, b) == Len(b) = Len(a) \/ Len(b) = 1

\* elementwise product of two broadcastable arrays
ArrMul(a, b) ==
    LET n == IF Len(a) >= Len(b) THEN Len(a) ELSE Len(b)
    IN  [i \in 1..n |-> Mul(a[IF Len(a) = 1 THEN 1 ELSE i],
                            b[IF Len(b) = 1 THEN 1 ELSE i])]

\* Python's builtin max over an array without NaN: the first element that
\* no element exceeds
PyMax(a) ==
    a[CHOOSE i \in 1..Len(a) :
          /\ \A j \in 1..Len(a) : ~Greater(a[j], a[i])
          /\ \A j \in 1..(i - 1) : Greater(a[i], a[j])]

(* --------------------------- placeholder helpers ------------------------ *)

hydraulic_flow(parameters) ==
    Ones(N, Get(parameters, "hydraulic_gradient", Num(1)))

thermal_transport(parameters) == Linspace(Num(20), Num(60), N)

\* np.exp(-k * np.arange(100))
DecayCurve(k) == [i \in 1..N |-> Exp(Mul(Neg(k), Num(Arange(N)[i])))]

biodegradation(conc, parameters) ==
    ArrMul(conc, DecayCurve(Get(parameters, "decay_rate", Rat(1, 10))))

chemical_interactions(conc, parameters) ==
    LET kd == Get(parameters, "kd", Rat(1, 2))
    IN  [i \in 1..Len(conc) |-> Div(conc[i], Add(Num(1), kd))]

\* np.random.normal(0, 0.01, 100): one of a family of arrays whose entries
\* are whole multiples of the standard deviation in -MaxDev..MaxDev
mechanical_response(seed) ==
    [i \in 1..N |-> Rat(((seed * 5 + i * 3) % (2 * MaxDev + 1)) - MaxDev, 100)]

gas_transport(parameters) == Linspace(Num(0), Num(1), N)

(* ----------------------- factors of the run branches -------------------- *)

\* np.exp(-0.01 * time)
BasicFactor(t) == [i \in 1..Len(t) |-> Exp(Mul(Rat(-1, 100), Num(t[i])))]

\* variant: the flow is used without the normalisation by its maximum
HydroFactorRaw(flow) == flow

\* flow / max(flow)
HydroFactor(flow) ==
    LET top == PyMax(flow)
    IN  [i \in 1..Len(flow) |-> Div(flow[i], top)]

\* 1 + 0.01 * (temperature - 20)
ThermalFactor(temperature) ==
    [i \in 1..Len(temperature) |->
        Add(Num(1), Mul(Rat(1, 100), Sub(temperature[i], Num(20))))]

\* 1 - np.abs(deformation)
MechFactor(deformation) ==
    [i \in 1..Len(deformation) |-> Sub(Num(1), AbsV(deformation[i]))]

\* variant: the operands of the subtraction swapped, gas / max(gas) - 1
GasFactorSwapped(gas) ==
    LET top == PyMax(gas)
    IN  [i \in 1..Len(gas) |-> Sub(Div(gas[i], top), Num(1))]

\* 1 - gas / max(gas)
GasFactor(gas) ==
    LET top == PyMax(gas)
    IN  [i \in 1..Len(gas) |-> Sub(Num(1), Div(gas[i], top))]

(* ------------------------------- output -------------------------------- *)

\* pd.DataFrame({"Time": time, "Concentration": concentration})
DataFrame(t, c) ==
    [columns |-> <<"Time", "Concentration">>, Time |-> t, Concentration |-> c]

\* df.set_index("Time"): Time becomes the index, one data column is left
SetIndexTime(df) ==
    [index |-> df.Time, columns |-> <<"Concentration">>,
     Concentration |-> df.Concentration]

\* a CSV field: a word, a run of decimal digits, or the repr of a finite float
Word(w) == [s |-> w, digits |-> <<>>, v |-> NaN]

RECURSIVE IntToDigits(_)
IntToDigits(i) ==
    IF i < 10 THEN <<i>> ELSE Append(IntToDigits(i \div 10), i % 10)

\* str() of a non-negative int64
FormatInt(i) == [s |-> "digits", digits |-> IntToDigits(i), v |-> NaN]

\* pandas writes NaN as the empty field (na_rep), infinities as inf / -inf and
\* a finite float by its shortest round-tripping repr
FormatFloat(x) ==
    IF x.k = "nan" THEN Word("")
    ELSE IF x.k = "inf" THEN (IF x.n = 1 THEN Word("inf") ELSE Word("-inf"))
    ELSE [s |-> "repr", digits |-> <<>>, v |-> x]

\* variant: the index column is written whatever the index argument says
ToCsvIndexed(df, index) ==
    LET n == Len(df.Time)
    IN  [i \in 1..(n + 1) |->
            IF i = 1 THEN <<Word(""), Word("Time"), Word("Concentration")>>
            ELSE <<FormatInt(i - 2), FormatInt(df.Time[i - 1]),
                   FormatFloat(df.Concentration[i - 1])>>]

\* df.to_csv(index=...): header line, then one line per row; with the index
\* an unnamed leading column of row numbers is written
ToCsv(df, index) ==
    LET n == Len(df.Time)
        head == <<Word("Time"), Word("Concentration")>>
        row(i) == <<FormatInt(df.Time[i]), FormatFloat(df.Concentration[i])>>
    IN  IF index
        THEN [i \in 1..(n + 1) |->
                 IF i = 1 THEN <<Word("")>> \o head
                 ELSE <<FormatInt(i - 2)>> \o row(i - 1)]
        ELSE [i \in 1..(n + 1) |-> IF i = 1 THEN head ELSE row(i - 1)]

(* ---------------------------- the Streamlit script ---------------------- *)

Resting == {"idle", "done", "failed"}

Init ==
    /\ model_type = "Basic"
    /\ time_steps = N
    /\ initial_conc = Num(100)
    /\ hydraulic_gradient = Num(1)
    /\ k_decay = Rat(1, 10)
    /\ kd_value = Rat(1, 2)
    /\ pc = "idle"
    /\ time = <<>>
    /\ concentration = <<>>
    /\ applied = <<>>
    /\ page = <<"info">>
    /\ chart = <<>>
    /\ csv = <<>>
    /\ error = "none"
    /\ rerun = FALSE

\* a rerun of the script with the button not pressed: the else branch
NotPressed ==
    /\ pc \in Resting
    /\ pc' = "idle"
    /\ time' = <<>>
    /\ concentration' = <<>>
    /\ applied' = <<>>
    /\ page' = <<"info">>
    /\ chart' = <<>>
    /\ csv' = <<>>
    /\ error' = "none"
    /\ rerun' = FALSE

SelectModelType ==
    /\ \E m \in ModelTypes \ {model_type} : model_type' = m
    /\ NotPressed
    /\ UNCHANGED <<time_steps, initial_conc, hydraulic_gradient, k_decay, kd_value>>

SlideTimeSteps ==
    /\ \E n \in TimeStepsSet \ {time_steps} : time_steps' = n
    /\ NotPressed
    /\ UNCHANGED <<model_type, initial_conc, hydraulic_gradient, k_decay, kd_value>>

InputInitialConc ==
    /\ \E c \in InitialConcSet \ {initial_conc} : initial_conc' = c
    /\ NotPressed
    /\ UNCHANGED <<model_type, time_steps, hydraulic_gradient, k_decay, kd_value>>

InputHydraulicGradient ==
    /\ \E g \in GradientSet \ {hydraulic_gradient} : hydraulic_gradient' = g
    /\ NotPressed
    /\ UNCHANGED <<model_type, time_steps, initial_conc, k_decay, kd_value>>

InputDecayRate ==
    /\ \E k \in DecayRateSet \ {k_decay} : k_decay' = k
    /\ NotPressed
    /\ UNCHANGED <<model_type, time_steps, initial_conc, hydraulic_gradient, kd_value>>

InputKd ==
    /\ \E k \in KdSet \ {kd_value} : kd_value' = k
    /\ NotPressed
    /\ UNCHANGED <<model_type, time_steps, initial_conc, hydraulic_gradient, k_decay>>

\* variant: the series of a completed run before is kept when its length fits
FreshSeriesCarried ==
    IF pc = "done" /\ Len(concentration) = time_steps THEN concentration
    ELSE Ones(time_steps, initial_conc)

\* np.ones(time_steps) * initial_conc
FreshSeries == Ones(time_steps, initial_conc)

\* the button pressed: the script reruns and enters the if branch; rerun
\* records that the page it replaces showed the outcome of an earlier run
RunSimulation ==
    /\ pc \in Resting
    /\ pc' = "basic"
    /\ time' = Arange(time_steps)
    /\ concentration' = FreshSeries
    /\ applied' = <<>>
    /\ page' = <<>>
    /\ chart' = <<>>
    /\ csv' = <<>>
    /\ error' = "none"
    /\ rerun' = (pc # "idle")
    /\ UNCHANGED controls

\* variant: the exception is recorded and the script goes on to the display
RaiseAndGoOn(exc) ==
    /\ pc' = "display"
    /\ error' = exc
    /\ page' = Append(page, "exception")
    /\ UNCHANGED <<concentration, applied>>

\* an exception nothing catches ends the script run; Streamlit shows it
Raise(exc) ==
    /\ pc' = "failed"
    /\ error' = exc
    /\ page' = Append(page, "exception")
    /\ UNCHANGED <<concentration, applied>>

\* one branch of the pipeline: skipped when its test is false, otherwise the
\* series is replaced by the result or the shape mismatch is raised
Branch(here, next, name, test, ok, result) ==
    /\ pc = here
    /\ IF ~test
       THEN /\ pc' = next
            /\ UNCHANGED <<concentration, applied, page, error>>
       ELSE IF ok
            THEN /\ pc' = next
                 /\ concentration' = result
                 /\ applied' = Append(applied, name)
                 /\ UNCHANGED <<page, error>>
            ELSE Raise("ValueError")
    /\ UNCHANGED <<controls, time, chart, csv, rerun>>

BasicTransport ==
    Branch("basic", "hydro", "Basic", model_type = "Basic",
           Broadcastable(Len(concentration), Len(time)),
           ArrMul(concentration, BasicFactor(time)))

Hydro ==
    LET flow == hydraulic_flow([hydraulic_gradient |-> hydraulic_gradient])
    IN  Branch("hydro", "thermal", "Hydro", PyIn("Hydro", model_type),
               InPlaceOk(concentration, flow),
               ArrMul(concentration, HydroFactor(flow)))

Thermal ==
    LET temperature == thermal_transport(EmptyDict)
    IN  Branch("thermal", "bio", "Thermal", PyIn("HT", model_type),
               InPlaceOk(concentration, temperature),
               ArrMul(concentration, ThermalFactor(temperature)))

Biodegradation ==
    Branch("bio", "chem", "Biodegradation", PyIn("B", model_type),
           Broadcastable(Len(concentration), N),
           biodegradation(concentration, [decay_rate |-> k_decay]))

Chemical ==
    Branch("chem", "mech", "Chemical", PyIn("C", model_type), TRUE,
           chemical_interactions(concentration, [kd |-> kd_value]))

Mechanical ==
    \E seed \in 0..MaxSeed :
        LET deformation == mechanical_response(seed)
        IN  Branch("mech", "gas", "Mechanical", PyIn("M", model_type),
                   InPlaceOk(concentration, deformation),
                   ArrMul(concentration, MechFactor(deformation)))

Gas ==
    LET gas == gas_transport(EmptyDict)
    IN  Branch("gas", "display", "Gas", PyIn("G", model_type),
               InPlaceOk(concentration, gas),
               ArrMul(concentration, GasFactor(gas)))

\* lines 86-92: data frame, subheader, chart, download button, success
Display ==
    /\ pc = "display"
    /\ LET df == DataFrame(time, concentration)
       IN  /\ chart' = <<SetIndexTime(df)>>
           /\ csv' = <<ToCsv(df, FALSE)>>
    /\ page' = page \o <<"subheader", "line_chart", "download_button", "success">>
    /\ pc' = "done"
    /\ UNCHANGED <<controls, time, concentration, applied, error, rerun>>

Next ==
    \/ SelectModelType
    \/ SlideTimeSteps
    \/ InputInitialConc
    \/ InputHydraulicGradient
    \/ InputDecayRate
    \/ InputKd
    \/ RunSimulation
    \/ BasicTransport
    \/ Hydro
    \/ Thermal
    \/ Biodegradation
    \/ Chemical
    \/ Mechanical
    \/ Gas
    \/ Display

Spec == Init /\ [][Next]_vars

(* ------------------------------ properties ----------------------------- *)

Range(q) == {q[i] : i \in DOMAIN q}

NonNeg(x) == (x.k = "fin" /\ x.n >= 0) \/ (x.k = "inf" /\ x.n = 1)

\* initial_conc * exp(-rate * t)
Decayed(c, rate, t) == Mul(c, Exp(Mul(Neg(rate), Num(t))))

\* the optional processes a model type designates in the HTBCMG naming scheme
Designated(m) ==
    CASE m = "Basic"  -> {}
      [] m = "Hydro"  -> {"Hydro"}
      [] m = "HT"     -> {"Hydro", "Thermal"}
      [] m = "HTB"    -> {"Hydro", "Thermal", "Biodegradation"}
      [] m = "HTBCM"  -> {"Hydro", "Thermal", "Biodegradation", "Chemical",
                          "Mechanical"}
      [] m = "HTBCMG" -> {"Hydro", "Thermal", "Biodegradation", "Chemical",
                          "Mechanical", "Gas"}

\* the transforms whose test in the script is true for model type m, in the
\* order of the script
EnabledOrder(m) ==
    LET order == <<"Basic", "Hydro", "Thermal", "Biodegradation", "Chemical",
                   "Mechanical", "Gas">>
        test(name) ==
            CASE name = "Basic"          -> m = "Basic"
              [] name = "Hydro"          -> PyIn("Hydro", m)
              [] name = "Thermal"        -> PyIn("HT", m)
              [] name = "Biodegradation" -> PyIn("B", m)
              [] name = "Chemical"       -> PyIn("C", m)
              [] name = "Mechanical"     -> PyIn("M", m)
              [] name = "Gas"            -> PyIn("G", m)
    IN  SelectSeq(order, test)

Ended == pc \in {"done", "failed"}

\* C1: for the Basic model type a completed run has the concentration at
\* every time index t in 0..time_steps-1 equal to initial_conc * exp(-0.01 * t),
\* whatever the other controls are.
C1_BasicIsPlainDecay ==
    (pc = "done" /\ model_type = "Basic") =>
        \A i \in 1..time_steps :
            concentration[i] = Decayed(initial_conc, Rat(1, 100), i - 1)

\* C2: for every model type and every step count of the slider a run ends
\* with a series whose Time column is 0..time_steps-1 and whose Concentration
\* column has time_steps values.
C2_SeriesHasChosenLength ==
    Ended =>
        /\ pc = "done"
        /\ chart[1].index = Arange(time_steps)
        /\ Len(chart[1].Concentration) = time_steps

\* C3: an optional process is applied in a run exactly when the selected model
\* type designates it in the HTBCMG naming scheme.
C3_AppliedIffDesignated ==
    pc = "done" => Range(applied) \ {"Basic"} = Designated(model_type)

\* C4: when biodegradation is the only optional process the model type
\* enables, the run result at index t is initial_conc * exp(-decay_rate * t),
\* and whenever the biodegradation stage is entered it multiplies the value at
\* every index t by exp(-decay_rate * t) with the configured rate.
C4_BiodegradationAlone ==
    [][/\ (pc = "bio" /\ PyIn("B", model_type)) =>
              /\ pc' = "chem"
              /\ concentration' =
                     [i \in 1..time_steps |->
                         Mul(concentration[i], Exp(Mul(Neg(k_decay), Num(i - 1))))]
       /\ (/\ pc' = "done"
           /\ Range(EnabledOrder(model_type)) \ {"Basic"} = {"Biodegradation"}) =>
              \A i \in 1..time_steps :
                  concentration'[i] = Decayed(initial_conc, k_decay, i - 1)]_vars

RECURSIVE DigitsToInt(_)
DigitsToInt(q) ==
    IF Len(q) = 0 THEN 0
    ELSE 10 * DigitsToInt(SubSeq(q, 1, Len(q) - 1)) + q[Len(q)]

\* reading a field back as a float: the empty field is NaN
ParseFloat(f) ==
    IF f.s = "" THEN NaN
    ELSE IF f.s = "inf" THEN Inf(1)
    ELSE IF f.s = "-inf" THEN Inf(-1)
    ELSE f.v

\* the (Time, Concentration) pairs of the data lines of a CSV text
ParseCsv(text) ==
    [i \in 1..(Len(text) - 1) |->
        <<DigitsToInt(text[i + 1][1].digits), ParseFloat(text[i + 1][Len(text[i + 1])])>>]

C6_NoValidationNoHandling ==
    /\ pc \notin Resting =>
           (time = Arange(time_steps) /\ Len(concentration) = time_steps)
    /\ Range(page) \subseteq {"info", "subheader", "line_chart",
                               "download_button", "success", "exception"}
    /\ error # "none" =>
           /\ pc = "failed"
           /\ chart = <<>>
           /\ csv = <<>>
           /\ Range(page) = {"exception"}

C6_Witness ==
    /\ pc = "failed"
    /\ error = "ValueError"
    /\ hydraulic_gradient = Num(0)
    /\ kd_value = Num(-1)

\* the series the pipeline yields from control values alone
SeriesOf(m, ts, c0, g, k, kd) ==
    LET s0 == [i \in 1..ts |-> c0]
        s1 == IF m = "Basic" THEN ArrMul(s0, BasicFactor(Arange(ts))) ELSE s0
        s2 == IF PyIn("Hydro", m)
              THEN ArrMul(s1, HydroFactor(hydraulic_flow([hydraulic_gradient |-> g])))
              ELSE s1
        s3 == IF PyIn("HT", m)
              THEN ArrMul(s2, ThermalFactor(thermal_transport(EmptyDict))) ELSE s2
        s4 == IF PyIn("B", m) THEN biodegradation(s3, [decay_rate |-> k]) ELSE s3
        s5 == IF PyIn("C", m) THEN chemical_interactions(s4, [kd |-> kd]) ELSE s4
    IN  s5

\* C7: every run starts from a fresh series of time_steps copies of
\* initial_conc, and the series of a completed run of a model type without the
\* mechanical stage is a function of that run's control values alone, whatever
\* runs came before it.
C7_SeriesFromControlsOnly ==
    /\ pc = "basic" => concentration = [i \in 1..time_steps |-> initial_conc]
    /\ (pc = "done" /\ ~PyIn("M", model_type)) =>
           concentration = SeriesOf(model_type, time_steps, initial_conc,
                                    hydraulic_gradient, k_decay, kd_value)

C7_Witness ==
    /\ pc = "done"
    /\ rerun
    /\ ~PyIn("M", model_type)
    /\ initial_conc # Num(0)

\* C8: in every run each transform the model type enables executes exactly
\* once, in the order Basic, Hydro, Thermal, Biodegradation, Chemical,
\* Mechanical, Gas, no other transform executes, the outputs appear only after
\* the last of them, and without a press only the info message is shown.
C8_EachEnabledTransformOnce ==
    /\ Ended => applied = EnabledOrder(model_type)
    /\ chart # <<>> => applied = EnabledOrder(model_type)
    /\ pc = "idle" => (applied = <<>> /\ page = <<"info">>)

\* C9: a completed run of the Hydro model type with a non-zero hydraulic
\* gradient returns initial_conc at every time index, so the gradient has no
\* influence on the result.
C9_HydroIsIdentity ==
    (pc = "done" /\ model_type = "Hydro" /\ hydraulic_gradient # Num(0)) =>
        /\ applied = <<"Hydro">>
        /\ \A i \in 1..time_steps : concentration[i] = initial_conc

C9_Witness ==
    /\ pc = "done"
    /\ model_type = "Hydro"
    /\ hydraulic_gradient = Num(-2)
    /\ initial_conc = Num(100)

\* C10 as stated: with initial concentration >= 0 and Kd >= 0 every value of a
\* completed run is >= 0, for every model type and every decay rate.
C10_NonNegative ==
    (pc = "done" /\ NonNeg(initial_conc) /\ NonNeg(kd_value)) =>
        \A i \in 1..time_steps : NonNeg(concentration[i])

\* C10 amended: with initial concentration >= 0, decay rate >= 0, Kd >= 0 and
\* a non-zero hydraulic gradient whenever the Hydro transform is enabled,
\* every value of a completed run is >= 0.
C10_NonNegativeAmended ==
    (/\ pc = "done"
     /\ NonNeg(initial_conc)
     /\ NonNeg(k_decay)
     /\ NonNeg(kd_value)
     /\ PyIn("Hydro", model_type) => hydraulic_gradient # Num(0)) =>
        \A i \in 1..time_steps : NonNeg(concentration[i])

C10_Witness ==
    /\ pc = "done"
    /\ model_type = "HTBCMG"
    /\ initial_conc = Num(100)
    /\ k_decay = Rat(1, 4)
    /\ kd_value = Rat(1, 2)
    /\ concentration[N] = Num(0)
    /\ concentration[1].n > 0

====
